---- MODULE Spec2Model ----
(***************************************************************************)
(* Model of the k8s-kost rightsizing analyzer                              *)
(* (backend/internal/analyzer/rightsizing.go).                             *)
(*                                                                         *)
(* float64 quantities are modelled as exact rationals [n, d] in lowest     *)
(* terms (d > 0).  The one place where IEEE-754 special values decide a     *)
(* branch, the division by currentRequest = 0 in the waste computation, is *)
(* modelled by its IEEE outcome (-Inf, NaN).  Rounding in the last binary   *)
(* digit of a float64 product is below the level of this model.            *)
(***************************************************************************)
EXTENDS Integers, Sequences, FiniteSets, TLC

VARIABLES
    calcIn,           \* arguments of one calculate*Recommendation call
    calcOut,          \* its result: <<>> for nil, <<rec>> for &Recommendation
    calcPc,           \* "ready" before the call, "done" after it, "idle" if none
    dbMetrics,        \* pod_metrics, grouped per (pod, container): one row each
    allocLookup,      \* per pod: outcome of the resource_requests lookup
    dbReachable,      \* whether the store answers the namespace query
    ctxCancelled,     \* the caller's context has been cancelled
    cancelledAt,      \* rows consumed when the context was cancelled (-1: never)
    pc,               \* position of AnalyzeNamespace
    rows,             \* result set of the metrics query
    rowIdx,           \* rows consumed by rows.Next() so far
    recommendations,  \* the slice built by AnalyzeNamespace
    retErr,           \* the error AnalyzeNamespace returns
    logged,           \* ra.log.Warnf lines, one per skipped workload
    nsCost,           \* namespace_costs: outcome of the last-hour SUM query
    simReq,           \* the request body posted to SimulateCosts
    sim,              \* per SimulateCosts invocation: its locals and response
    cb,               \* the CircuitBreaker's fields
    cbCall,           \* per goroutine: its position in CircuitBreaker.Execute
    now,              \* the clock read by time.Since / time.Now
    cbHist,           \* observer: calls admitted and results recorded so far
    retry,            \* one Retry / RetryWithResult call: its locals
    summary,          \* what GetOptimizationSummary returns (<<>>: not called)
    hubClients,       \* Hub.clients: the registered clients
    send,             \* per client: its send channel
    wsPc,             \* per goroutine of the websocket package: its position
    subscribed,       \* per client: Client.subscribedNamespaces[namespace]
    wsHist,           \* observer: the panic raised, broadcasts and messages so far
    cache,            \* the two cache levels, per key
    cachePc           \* per CacheManager call in progress: its position

vars == <<calcIn, calcOut, calcPc, dbMetrics, allocLookup, dbReachable, ctxCancelled,
          cancelledAt, pc, rows, rowIdx, recommendations, retErr, logged,
          nsCost, simReq, sim, cb, cbCall, now, cbHist, retry,
          summary, hubClients, send, wsPc, subscribed, wsHist, cache, cachePc>>

calcVars == <<calcIn, calcOut, calcPc>>
nsVars == <<dbMetrics, allocLookup, dbReachable, ctxCancelled, cancelledAt, pc, rows,
            rowIdx, recommendations, retErr, logged>>
simVars == <<nsCost, simReq, sim>>
cbVars == <<cb, cbCall, now, cbHist>>
retryVars == <<retry>>
sumVars == <<summary>>
wsVars == <<hubClients, send, wsPc, subscribed, wsHist>>
cacheVars == <<cache, cachePc>>

\* the variables of the handlers and packages other than the analyzer
extVars == <<simVars, cbVars, retryVars, sumVars, wsVars, cacheVars>>

SimIdle == nsCost = <<>> /\ simReq = <<>> /\ sim = <<>>

CBIdle == cb = <<>> /\ cbCall = <<>> /\ now = 0 /\ cbHist = <<>>

RetryIdle == retry = <<>>

SumIdle == summary = <<>>

WsIdle ==
    hubClients = {} /\ send = <<>> /\ wsPc = <<>> /\ subscribed = <<>> /\ wsHist = <<>>

CacheIdle == cache = <<>> /\ cachePc = <<>>

ExtIdle == SimIdle /\ CBIdle /\ RetryIdle /\ SumIdle /\ WsIdle /\ CacheIdle

----------------------------------------------------------------------------
(* Exact rational arithmetic standing in for float64.                      *)

Abs(x) == IF x < 0 THEN -x ELSE x

RECURSIVE GCD(_, _)
GCD(a, b) == IF b = 0 THEN a ELSE GCD(b, a % b)

Rat(n, d) ==
    LET g == GCD(Abs(n), Abs(d))
        s == IF d < 0 THEN -1 ELSE 1
    IN  [n |-> s * (n \div g), d |-> s * (d \div g)]

Int2Rat(i) == [n |-> i, d |-> 1]

RMul(a, b) ==
    LET g1 == GCD(Abs(a.n), b.d)
        g2 == GCD(Abs(b.n), a.d)
    IN  IF a.n = 0 \/ b.n = 0 THEN Int2Rat(0)
        ELSE [n |-> (a.n \div g1) * (b.n \div g2),
              d |-> (a.d \div g2) * (b.d \div g1)]

RSub(a, b) ==
    LET l == (a.d \div GCD(a.d, b.d)) * b.d
    IN  Rat(a.n * (l \div a.d) - b.n * (l \div b.d), l)

RLt(a, b) ==
    LET l == (a.d \div GCD(a.d, b.d)) * b.d
    IN  a.n * (l \div a.d) < b.n * (l \div b.d)

RLe(a, b) == ~RLt(b, a)

RMax(a, b) == IF RLt(a, b) THEN b ELSE a

RMin(a, b) == IF RLt(b, a) THEN b ELSE a

\* math.Ceil(x / unit) * unit for a positive integer unit
CeilTo(x, unit) ==
    LET q == x.d * unit
    IN  Int2Rat(((x.n + q - 1) \div q) * unit)

----------------------------------------------------------------------------
(* Configuration set by NewRightsizingAnalyzer and the literals of the     *)
(* two calculate functions.                                                *)

minDataPoints == 100

wasteThreshold == Rat(30, 100)

MiB == 1048576

costPerMillicore == Rat(1, 100000)

costPerByte == Rat(1, 100000000)

NoRec == <<>>

----------------------------------------------------------------------------
(* calculateConfidence                                                     *)

\* Mutant of calculateConfidence: the final bounds are not enforced.
calculateConfidence_NoBounds(dataPoints, cv) ==
    LET baseConfidence == RMin(Rat(dataPoints, 1000), Int2Rat(1))
        vf == RSub(Int2Rat(1), RMul(cv, Rat(1, 2)))
        variabilityFactor == IF RLt(vf, Rat(3, 10)) THEN Rat(3, 10) ELSE vf
    IN  RMul(baseConfidence, variabilityFactor)

\* Mutant of calculateConfidence: the sample count saturates at 500.
calculateConfidence_Base500(dataPoints, cv) ==
    LET baseConfidence == RMin(Rat(dataPoints, 500), Int2Rat(1))
        vf == RSub(Int2Rat(1), RMul(cv, Rat(1, 2)))
        variabilityFactor == IF RLt(vf, Rat(3, 10)) THEN Rat(3, 10) ELSE vf
        confidence == RMul(baseConfidence, variabilityFactor)
    IN  IF RLt(confidence, Rat(1, 10)) THEN Rat(1, 10)
        ELSE IF RLt(Rat(95, 100), confidence) THEN Rat(95, 100)
        ELSE confidence

calculateConfidence(dataPoints, cv) ==
    LET baseConfidence == RMin(Rat(dataPoints, 1000), Int2Rat(1))
        vf == RSub(Int2Rat(1), RMul(cv, Rat(1, 2)))
        variabilityFactor == IF RLt(vf, Rat(3, 10)) THEN Rat(3, 10) ELSE vf
        confidence == RMul(baseConfidence, variabilityFactor)
    IN  IF RLt(confidence, Rat(1, 10)) THEN Rat(1, 10)
        ELSE IF RLt(Rat(95, 100), confidence) THEN Rat(95, 100)
        ELSE confidence

\* cv := stddev / avg; if avg == 0 { cv = 0 }
CoefficientOfVariation(avg, stddev) ==
    IF avg = 0 THEN Int2Rat(0) ELSE Rat(stddev, avg)

\* waste := (currentRequest - p95) / currentRequest; waste < ra.wasteThreshold.
\* With currentRequest = 0 the float64 quotient is -Inf (p95 > 0), which is
\* below every threshold, or NaN (p95 = 0), which compares false.
WasteBelowThreshold(currentRequest, p95) ==
    IF currentRequest = 0 THEN p95 > 0
    ELSE RLt(Rat(currentRequest - p95, currentRequest), wasteThreshold)

\* Mutant of Suppressed: the gate looks at waste alone.
Suppressed_WasteOnly(currentRequest, p95, confidence) ==
    WasteBelowThreshold(currentRequest, p95)

\* if waste < ra.wasteThreshold && confidence > 0.7 { return nil }
Suppressed(currentRequest, p95, confidence) ==
    WasteBelowThreshold(currentRequest, p95) /\ RLt(Rat(7, 10), confidence)

----------------------------------------------------------------------------
(* calculateCPURecommendation                                              *)

\* Mutant of CPUBaseRequest: a 10% safety margin, as for memory.
CPUBaseRequest_Margin110(p95) == RMul(Int2Rat(p95), Rat(110, 100))

\* recommendedRequest := p95 * safetyMargin, safetyMargin = 1.15
CPUBaseRequest(p95) == RMul(Int2Rat(p95), Rat(115, 100))

\* the three variability tiers: limit, reasoning and risk level
CPUTier(cv, p99, max) ==
    IF RLt(cv, Rat(3, 10)) THEN
        [limit |-> RMul(Int2Rat(p99), Rat(12, 10)),
         reasoning |-> "Low variability workload, using P99 + 20% for limit",
         riskLevel |-> "LOW"]
    ELSE IF RLt(cv, Rat(6, 10)) THEN
        [limit |-> RMax(RMul(Int2Rat(p99), Rat(15, 10)), Int2Rat(max)),
         reasoning |-> "Medium variability workload, using max(P99*1.5, max) for limit",
         riskLevel |-> "MEDIUM"]
    ELSE
        [limit |-> RMul(Int2Rat(max), Rat(13, 10)),
         reasoning |-> "High variability workload, using max + 30% for limit",
         riskLevel |-> "HIGH"]

\* monthlySavings := (hourlyCurrentCost - hourlyRecommendedCost) * 24 * 30
MonthlySavings(currentRequest, recommendedRequest, unitCost) ==
    RMul(RMul(RSub(RMul(currentRequest, unitCost),
                   RMul(recommendedRequest, unitCost)),
              Int2Rat(24)),
         Int2Rat(30))

\* if recommendedRequest < 10 { recommendedRequest = 10; reasoning += ... }
CPURequestFloor(r) ==
    IF RLt(r.request, Int2Rat(10))
    THEN [r EXCEPT !.request = Int2Rat(10),
                   !.reasoning = @ \o " (adjusted to minimum 10m CPU)"]
    ELSE r

\* Mutant of CPULimitFloor: the limit is compared with the request itself.
CPULimitFloor_NoFactor(r) ==
    IF RLt(r.limit, r.request)
    THEN [r EXCEPT !.limit = r.request,
                   !.reasoning = @ \o " (adjusted limit to 1.5x request)"]
    ELSE r

\* if recommendedLimit < recommendedRequest*1.5 { recommendedLimit = ...; reasoning += ... }
CPULimitFloor(r) ==
    IF RLt(r.limit, RMul(r.request, Rat(15, 10)))
    THEN [r EXCEPT !.limit = RMul(r.request, Rat(15, 10)),
                   !.reasoning = @ \o " (adjusted limit to 1.5x request)"]
    ELSE r

calculateCPURecommendation(currentRequest, currentLimit, p50, p95, p99, max, avg, stddev, dataPoints) ==
    LET cv == CoefficientOfVariation(avg, stddev)
        confidence == calculateConfidence(dataPoints, cv)
        recommendedRequest == CPUBaseRequest(p95)
        tier == CPUTier(cv, p99, max)
        monthlySavings == MonthlySavings(Int2Rat(currentRequest), recommendedRequest,
                                         costPerMillicore)
        adj == CPULimitFloor(CPURequestFloor(
                   [request |-> recommendedRequest, limit |-> tier.limit,
                    reasoning |-> tier.reasoning]))
    IN  IF Suppressed(currentRequest, p95, confidence) THEN NoRec
        ELSE << [Namespace |-> "", PodName |-> 0, ContainerName |-> "",
                 ResourceType |-> "CPU",
                 CurrentRequest |-> Int2Rat(currentRequest),
                 CurrentLimit |-> Int2Rat(currentLimit),
                 RecommendedRequest |-> adj.request,
                 RecommendedLimit |-> adj.limit,
                 P50Usage |-> Int2Rat(p50), P95Usage |-> Int2Rat(p95),
                 P99Usage |-> Int2Rat(p99), MaxUsage |-> Int2Rat(max),
                 PotentialSavings |-> monthlySavings,
                 Confidence |-> confidence,
                 Reasoning |-> adj.reasoning,
                 RiskLevel |-> tier.riskLevel] >>

----------------------------------------------------------------------------
(* calculateMemoryRecommendation                                           *)

\* recommendedRequest := p95 * 1.1, rounded up to whole Mi
MemoryBaseRequest(p95) == CeilTo(RMul(Int2Rat(p95), Rat(11, 10)), MiB)

\* Mutant of MemoryBaseLimit: the limit is taken from max without the buffer.
MemoryBaseLimit_NoBuffer(max) == CeilTo(Int2Rat(max), MiB)

\* recommendedLimit := max * oomBuffer (1.2), rounded up to whole Mi
MemoryBaseLimit(max) == CeilTo(RMul(Int2Rat(max), Rat(12, 10)), MiB)

\* Mutant of MemoryRiskLevel: the tier bounds are inclusive.
MemoryRiskLevel_Inclusive(cv) ==
    IF RLe(cv, Rat(3, 10)) THEN "LOW"
    ELSE IF RLe(cv, Rat(6, 10)) THEN "MEDIUM"
    ELSE "HIGH"

MemoryRiskLevel(cv) ==
    IF RLt(cv, Rat(3, 10)) THEN "LOW"
    ELSE IF RLt(cv, Rat(6, 10)) THEN "MEDIUM"
    ELSE "HIGH"

\* if recommendedRequest < 64*1024*1024 { recommendedRequest = 64 * 1024 * 1024 }
MemoryRequestFloor(r) ==
    IF RLt(r.request, Int2Rat(64 * 1024 * 1024))
    THEN [r EXCEPT !.request = Int2Rat(64 * 1024 * 1024)]
    ELSE r

\* if recommendedLimit < recommendedRequest*1.5 { recommendedLimit = recommendedRequest * 1.5 }
MemoryLimitFloor(r) ==
    IF RLt(r.limit, RMul(r.request, Rat(15, 10)))
    THEN [r EXCEPT !.limit = RMul(r.request, Rat(15, 10))]
    ELSE r

calculateMemoryRecommendation(currentRequest, currentLimit, p50, p95, p99, max, avg, stddev, dataPoints) ==
    LET cv == CoefficientOfVariation(avg, stddev)
        confidence == calculateConfidence(dataPoints, cv)
        recommendedRequest == MemoryBaseRequest(p95)
        recommendedLimit == MemoryBaseLimit(max)
        monthlySavings == MonthlySavings(Int2Rat(currentRequest), recommendedRequest,
                                         costPerByte)
        adj == MemoryLimitFloor(MemoryRequestFloor(
                   [request |-> recommendedRequest, limit |-> recommendedLimit]))
    IN  IF Suppressed(currentRequest, p95, confidence) THEN NoRec
        ELSE << [Namespace |-> "", PodName |-> 0, ContainerName |-> "",
                 ResourceType |-> "Memory",
                 CurrentRequest |-> Int2Rat(currentRequest),
                 CurrentLimit |-> Int2Rat(currentLimit),
                 RecommendedRequest |-> adj.request,
                 RecommendedLimit |-> adj.limit,
                 P50Usage |-> Int2Rat(p50), P95Usage |-> Int2Rat(p95),
                 P99Usage |-> Int2Rat(p99), MaxUsage |-> Int2Rat(max),
                 PotentialSavings |-> monthlySavings,
                 Confidence |-> confidence,
                 Reasoning |-> "Memory recommendation with OOM prevention buffer",
                 RiskLevel |-> MemoryRiskLevel(cv)] >>

----------------------------------------------------------------------------
(* Inputs.  A usage summary is what the aggregate query returns for one    *)
(* (pod, container) group of non-negative samples: the percentiles are      *)
(* ordered, the mean is bounded by them (p50/2 <= mean, p95/20 <= mean,     *)
(* mean <= 0.95*p95 + 0.05*max) and the standard deviation respects         *)
(* stddev^2 <= mean * (max - mean).                                         *)

UsageLevels == {0, 5, 180, 220, 250}

MeanLevels == {0, 4, 50, 120}

StddevLevels == {0, 30, 36, 60, 100}

UsageSummaries ==
    { s \in [p50 : {0, 100}, p95 : UsageLevels, p99 : UsageLevels,
             max : UsageLevels, avg : MeanLevels, stddev : StddevLevels] :
        /\ s.p50 <= s.p95 /\ s.p95 <= s.p99 /\ s.p99 <= s.max
        /\ s.avg <= s.max /\ (s.avg = 0 => s.max = 0)
        /\ s.p50 <= 2 * s.avg /\ s.p95 <= 20 * s.avg
        /\ 100 * s.avg <= 95 * s.p95 + 5 * s.max
        /\ s.stddev * s.stddev <= s.avg * (s.max - s.avg) }

\* COUNT(*) of a group that passes HAVING COUNT(*) >= minDataPoints
DataPointLevels == {100, 500, 700, 701, 2000}

\* cpu_request / memory_request of the latest resource_requests row
RequestLevels == {0, 150, 250, 400}

\* bytes per usage level for memory summaries: single bytes, and a unit
\* that is no whole number of Mi
MemoryUnits == {1, 500000}

Scale(s, u) ==
    [p50 |-> s.p50 * u, p95 |-> s.p95 * u, p99 |-> s.p99 * u,
     max |-> s.max * u, avg |-> s.avg * u, stddev |-> s.stddev * u]

CalcInputs ==
    { [kind |-> "CPU", s |-> s, dataPoints |-> n,
       currentRequest |-> c, currentLimit |-> 2 * c] :
         s \in UsageSummaries, n \in DataPointLevels, c \in RequestLevels }
    \cup
    { [kind |-> "Memory", s |-> Scale(x[1], x[2]), dataPoints |-> n,
       currentRequest |-> c * x[2], currentLimit |-> 2 * c * x[2]] :
         x \in UsageSummaries \X MemoryUnits, n \in DataPointLevels,
         c \in RequestLevels }

----------------------------------------------------------------------------
(* One call of a calculate function on enumerated arguments.               *)

NsIdle ==
    /\ dbMetrics = <<>> /\ allocLookup = <<>> /\ dbReachable = TRUE /\ ctxCancelled = FALSE
    /\ cancelledAt = -1 /\ pc = "idle" /\ rows = <<>> /\ rowIdx = 0
    /\ recommendations = <<>> /\ retErr = "nil" /\ logged = <<>>

CalcInit ==
    /\ calcIn \in CalcInputs
    /\ calcOut = NoRec
    /\ calcPc = "ready"
    /\ NsIdle
    /\ ExtIdle

CalcCPU ==
    /\ calcPc = "ready" /\ calcIn.kind = "CPU"
    /\ calcOut' = calculateCPURecommendation(
                      calcIn.currentRequest, calcIn.currentLimit,
                      calcIn.s.p50, calcIn.s.p95, calcIn.s.p99, calcIn.s.max,
                      calcIn.s.avg, calcIn.s.stddev, calcIn.dataPoints)
    /\ calcPc' = "done"
    /\ UNCHANGED <<calcIn, nsVars, extVars>>

CalcMemory ==
    /\ calcPc = "ready" /\ calcIn.kind = "Memory"
    /\ calcOut' = calculateMemoryRecommendation(
                      calcIn.currentRequest, calcIn.currentLimit,
                      calcIn.s.p50, calcIn.s.p95, calcIn.s.p99, calcIn.s.max,
                      calcIn.s.avg, calcIn.s.stddev, calcIn.dataPoints)
    /\ calcPc' = "done"
    /\ UNCHANGED <<calcIn, nsVars, extVars>>

CalcNext == CalcCPU \/ CalcMemory

SpecCalc == CalcInit /\ [][CalcNext]_vars

----------------------------------------------------------------------------
(* Properties of the calculate functions, checked under SpecCalc.          *)

Emitted == calcPc = "done" /\ calcOut # NoRec

EmittedRec == calcOut[1]

CalcCV == CoefficientOfVariation(calcIn.s.avg, calcIn.s.stddev)

CalcConfidence == calculateConfidence(calcIn.dataPoints, CalcCV)

\* waste < 0.30, with waste = (currentRequest - p95) / currentRequest; for
\* currentRequest = 0 the quotient is -Inf when p95 > 0 and NaN when p95 = 0
CalcWasteLow ==
    IF calcIn.currentRequest = 0 THEN calcIn.s.p95 > 0
    ELSE 10 * (calcIn.currentRequest - calcIn.s.p95) < 3 * calcIn.currentRequest

CalcConfidenceHigh == 10 * CalcConfidence.n > 7 * CalcConfidence.d

\* C1: a calculate function returns nil if and only if waste < 0.30 and
\* confidence > 0.7; low waste with confidence <= 0.7 still yields a
\* recommendation, and waste >= 0.30 yields one at any confidence.
C1_WasteGate ==
    calcPc = "done" =>
        /\ (calcOut = NoRec) <=> (CalcWasteLow /\ CalcConfidenceHigh)
        /\ (CalcWasteLow /\ ~CalcConfidenceHigh) => calcOut # NoRec
        /\ ~CalcWasteLow => calcOut # NoRec

\* a recommendation emitted despite low waste because confidence is <= 0.7
C1_Witness ==
    /\ Emitted /\ CalcWasteLow /\ ~CalcConfidenceHigh
    /\ calcIn.currentRequest > 0

\* C3: every emitted Memory recommendation has
\* recommendedLimit >= 1.20 * max observed usage.
C3_MemoryLimitCoversMax ==
    (Emitted /\ calcIn.kind = "Memory") =>
        RLe(RMul(Int2Rat(calcIn.s.max), Rat(120, 100)), EmittedRec.RecommendedLimit)

\* a Memory recommendation whose limit is the rounded max * 1.2 (no floor
\* applied to the limit), for a max that is no whole number of Mi
C3_Witness ==
    /\ Emitted /\ calcIn.kind = "Memory"
    /\ calcIn.s.max % MiB # 0
    /\ RLt(RMul(EmittedRec.RecommendedRequest, Rat(15, 10)), EmittedRec.RecommendedLimit)
    /\ RLt(Int2Rat(64 * MiB), EmittedRec.RecommendedRequest)

\* C4: every emitted CPU recommendation has recommendedRequest >= 10 and
\* recommendedLimit >= 1.5 * recommendedRequest.
C4_CPUFloors ==
    (Emitted /\ calcIn.kind = "CPU") =>
        /\ RLe(Int2Rat(10), EmittedRec.RecommendedRequest)
        /\ RLe(RMul(EmittedRec.RecommendedRequest, Rat(15, 10)),
               EmittedRec.RecommendedLimit)

\* a CPU recommendation in the high-variability tier whose limit had to be
\* raised to 1.5 times the request
C4_Witness ==
    /\ Emitted /\ calcIn.kind = "CPU"
    /\ EmittedRec.RiskLevel = "HIGH"
    /\ RLt(RMul(Int2Rat(calcIn.s.max), Rat(13, 10)), EmittedRec.RecommendedLimit)

\* C5: every emitted recommendation carries a confidence in [0.1, 0.95].
C5_ConfidenceBounds ==
    Emitted =>
        /\ RLe(Rat(1, 10), EmittedRec.Confidence)
        /\ RLe(EmittedRec.Confidence, Rat(95, 100))

\* a recommendation for a summary with mean = 0 whose confidence was cut
\* down to 0.95
C5_Witness ==
    /\ Emitted /\ calcIn.s.avg = 0 /\ calcIn.dataPoints >= 1000
    /\ EmittedRec.Confidence = Rat(95, 100)

UnitCost(kind) == IF kind = "CPU" THEN costPerMillicore ELSE costPerByte

\* C6: potentialSavings = (currentRequest - recommendedRequest) * unitCost *
\* hoursPerMonth (720) for the recommended request the recommendation carries.
C6_SavingsFromEmittedRequest ==
    Emitted =>
        EmittedRec.PotentialSavings =
            RMul(RMul(RSub(EmittedRec.CurrentRequest, EmittedRec.RecommendedRequest),
                      UnitCost(calcIn.kind)),
                 Int2Rat(720))

WorkedExample ==
    [kind |-> "CPU",
     s |-> [p50 |-> 100, p95 |-> 180, p99 |-> 220, max |-> 250,
            avg |-> 120, stddev |-> 30],
     dataPoints |-> 500, currentRequest |-> 400, currentLimit |-> 800]

\* C7: the worked example yields a CPU recommendation with request 207,
\* limit 310.5 (raised from 264 by the 1.5x floor), confidence 0.4375, risk
\* LOW and a reasoning that records the limit adjustment.
C7_WorkedExample ==
    (calcPc = "done" /\ calcIn = WorkedExample) =>
        /\ Len(calcOut) = 1
        /\ EmittedRec.ResourceType = "CPU"
        /\ EmittedRec.RecommendedRequest = Int2Rat(207)
        /\ EmittedRec.RecommendedLimit = Rat(3105, 10)
        /\ EmittedRec.Confidence = Rat(4375, 10000)
        /\ EmittedRec.RiskLevel = "LOW"
        /\ EmittedRec.Reasoning =
               "Low variability workload, using P99 + 20% for limit (adjusted limit to 1.5x request)"

C7_Witness == calcPc = "done" /\ calcIn = WorkedExample /\ calcOut # NoRec

----------------------------------------------------------------------------
(* AnalyzeNamespace.  The store holds one aggregate group per (pod,        *)
(* container) of the namespace; pods are named by their position.  The     *)
(* sample columns are nullable, so a group's aggregates may be NULL and    *)
(* fail rows.Scan.  The resource_requests lookup of a pod yields the       *)
(* latest row, sql.ErrNoRows, or a connection error.                       *)

MaxWorkloads == 2

BusyUsage ==
    [p50 |-> 100, p95 |-> 180, p99 |-> 220, max |-> 250, avg |-> 120, stddev |-> 30]

SteadyUsage ==
    [p50 |-> 100, p95 |-> 220, p99 |-> 220, max |-> 220, avg |-> 120, stddev |-> 0]

MetricGroups ==
    { [cpu |-> BusyUsage, mem |-> Scale(BusyUsage, 500000),
       dataPoints |-> n, nullStats |-> FALSE] : n \in {99, 500} }
    \cup
    { [cpu |-> SteadyUsage, mem |-> Scale(SteadyUsage, 500000),
       dataPoints |-> 2000, nullStats |-> FALSE],
      [cpu |-> BusyUsage, mem |-> Scale(BusyUsage, 500000),
       dataPoints |-> 500, nullStats |-> TRUE] }

AllocOutcomes ==
    { [kind |-> "row", cpuRequest |-> c, cpuLimit |-> 2 * c,
       memoryRequest |-> c * 500000, memoryLimit |-> 2 * c * 500000] :
         c \in {250, 400} }
    \cup
    { [kind |-> k, cpuRequest |-> 0, cpuLimit |-> 0,
       memoryRequest |-> 0, memoryLimit |-> 0] : k \in {"ErrNoRows", "connError"} }

\* Mutant of QueryMetrics: the HAVING clause is missing.
QueryMetrics_NoHaving(db) ==
    [i \in 1..Len(db) |-> [pod |-> i, g |-> db[i]]]

\* SELECT ... GROUP BY pm.pod_name, pm.container_name HAVING COUNT(*) >= $2
QueryMetrics(db) ==
    SelectSeq([i \in 1..Len(db) |-> [pod |-> i, g |-> db[i]]],
              LAMBDA r : r.g.dataPoints >= minDataPoints)

\* getCurrentResources: (requests, limits); limits carries the limit columns
getCurrentResources(lookup) ==
    [requests |-> [CPURequest |-> lookup.cpuRequest, CPULimit |-> lookup.cpuLimit,
                   MemoryRequest |-> lookup.memoryRequest,
                   MemoryLimit |-> lookup.memoryLimit],
     limits |-> [CPURequest |-> lookup.cpuLimit, CPULimit |-> lookup.cpuLimit,
                 MemoryRequest |-> lookup.memoryLimit,
                 MemoryLimit |-> lookup.memoryLimit]]

\* cpuRec.Namespace = namespace; cpuRec.PodName = podName; ... for a non-nil rec
Tagged(rec, pod) ==
    [i \in 1..Len(rec) |->
        [rec[i] EXCEPT !.Namespace = "ns", !.PodName = pod, !.ContainerName = "main"]]

\* the recommendations one loop iteration appends for a scanned row
RowRecommendations(row, lookup) ==
    LET cur == getCurrentResources(lookup)
        cpuRec == calculateCPURecommendation(
                      cur.requests.CPURequest, cur.limits.CPULimit,
                      row.g.cpu.p50, row.g.cpu.p95, row.g.cpu.p99, row.g.cpu.max,
                      row.g.cpu.avg, row.g.cpu.stddev, row.g.dataPoints)
        memRec == calculateMemoryRecommendation(
                      cur.requests.MemoryRequest, cur.limits.MemoryLimit,
                      row.g.mem.p50, row.g.mem.p95, row.g.mem.p99, row.g.mem.max,
                      row.g.mem.avg, row.g.mem.stddev, row.g.dataPoints)
    IN  Tagged(cpuRec, row.pod) \o Tagged(memRec, row.pod)

CalcIdle == calcIn = WorkedExample /\ calcOut = NoRec /\ calcPc = "idle"

Init ==
    /\ CalcIdle
    /\ ExtIdle
    /\ \E n \in 1..MaxWorkloads :
          /\ dbMetrics \in [1..n -> MetricGroups]
          /\ allocLookup \in [1..n -> AllocOutcomes]
    /\ dbReachable \in BOOLEAN
    /\ ctxCancelled = FALSE /\ cancelledAt = -1
    /\ pc = "idle" /\ rows = <<>> /\ rowIdx = 0
    /\ recommendations = <<>> /\ retErr = "nil" /\ logged = <<>>

\* the caller cancels the request context
Cancel ==
    /\ pc \in {"idle", "loop"} /\ ~ctxCancelled
    /\ ctxCancelled' = TRUE
    /\ cancelledAt' = IF pc = "loop" THEN rowIdx ELSE -1
    /\ UNCHANGED <<calcVars, extVars, dbMetrics, allocLookup, dbReachable, pc, rows, rowIdx,
                   recommendations, retErr, logged>>

\* ra.db.QueryContext fails: return nil, fmt.Errorf("querying metrics: %w", err)
QueryFails ==
    /\ pc = "idle" /\ (ctxCancelled \/ ~dbReachable)
    /\ pc' = "done"
    /\ retErr' = "querying metrics"
    /\ recommendations' = <<>>
    /\ UNCHANGED <<calcVars, extVars, dbMetrics, allocLookup, dbReachable, ctxCancelled,
                   cancelledAt, rows, rowIdx, logged>>

\* ra.db.QueryContext succeeds
Query ==
    /\ pc = "idle" /\ ~ctxCancelled /\ dbReachable
    /\ rows' = QueryMetrics(dbMetrics)
    /\ rowIdx' = 0
    /\ pc' = "loop"
    /\ UNCHANGED <<calcVars, extVars, dbMetrics, allocLookup, dbReachable, ctxCancelled,
                   cancelledAt, recommendations, retErr, logged>>

\* rows.Next() yields the next row.  Once the context is cancelled the rows
\* are closed by database/sql in the background, so a call of Next may still
\* see the next row or may already see the rows closed (Return).
HasNext == pc = "loop" /\ rowIdx < Len(rows)

NextRow == rows[rowIdx + 1]

\* rows.Scan fails (NULL aggregates, or rows closed under it): warn, continue
ScanFails ==
    /\ HasNext /\ (NextRow.g.nullStats \/ ctxCancelled)
    /\ logged' = Append(logged, [pod |-> NextRow.pod, err |-> "scan"])
    /\ rowIdx' = rowIdx + 1
    /\ UNCHANGED <<calcVars, extVars, dbMetrics, allocLookup, dbReachable, ctxCancelled,
                   cancelledAt, pc, rows, recommendations, retErr>>

\* Mutant of LookupFails: a failed lookup ends the run with the error.
LookupFails_Abort ==
    /\ HasNext /\ ~NextRow.g.nullStats
    /\ allocLookup[NextRow.pod].kind # "row"
    /\ pc' = "done"
    /\ retErr' = "getting current resources"
    /\ recommendations' = <<>>
    /\ rowIdx' = rowIdx + 1
    /\ UNCHANGED <<calcVars, extVars, dbMetrics, allocLookup, dbReachable, ctxCancelled,
                   cancelledAt, rows, logged>>

\* getCurrentResources fails (no row, or the store cannot be reached; it takes
\* no context): warn, continue
LookupFails ==
    /\ HasNext /\ ~NextRow.g.nullStats
    /\ allocLookup[NextRow.pod].kind # "row"
    /\ logged' = Append(logged, [pod |-> NextRow.pod,
                                 err |-> allocLookup[NextRow.pod].kind])
    /\ rowIdx' = rowIdx + 1
    /\ UNCHANGED <<calcVars, extVars, dbMetrics, allocLookup, dbReachable, ctxCancelled,
                   cancelledAt, pc, rows, recommendations, retErr>>

\* one full iteration: scan, lookup, CPU and Memory recommendation appended
AnalyzeRow ==
    /\ HasNext /\ ~NextRow.g.nullStats
    /\ allocLookup[NextRow.pod].kind = "row"
    /\ recommendations' =
           recommendations \o RowRecommendations(NextRow, allocLookup[NextRow.pod])
    /\ rowIdx' = rowIdx + 1
    /\ UNCHANGED <<calcVars, extVars, dbMetrics, allocLookup, dbReachable, ctxCancelled,
                   cancelledAt, pc, rows, retErr, logged>>

\* rows.Next() returns false (exhausted, or closed after cancellation); rows.Err()
\* is not consulted: return recommendations, nil
Return ==
    /\ pc = "loop" /\ (rowIdx = Len(rows) \/ ctxCancelled)
    /\ pc' = "done"
    /\ retErr' = "nil"
    /\ UNCHANGED <<calcVars, extVars, dbMetrics, allocLookup, dbReachable, ctxCancelled,
                   cancelledAt, rows, rowIdx, recommendations, logged>>

Next ==
    \/ Cancel
    \/ QueryFails
    \/ Query
    \/ ScanFails
    \/ LookupFails
    \/ AnalyzeRow
    \/ Return

Spec == Init /\ [][Next]_vars

----------------------------------------------------------------------------
(* Properties of AnalyzeNamespace, checked under Spec.                     *)

RecsOfPod(pod) == SelectSeq(recommendations, LAMBDA r : r.PodName = pod)

LoggedPods == { logged[i].pod : i \in 1..Len(logged) }

\* C2: a workload whose sample count is below minDataPoints gets no CPU and
\* no Memory recommendation, whatever its usage and allocation.
C2_NoRecBelowMinDataPoints ==
    \A pod \in 1..Len(dbMetrics) :
        dbMetrics[pod].dataPoints < minDataPoints => RecsOfPod(pod) = <<>>

\* a finished run over a namespace holding a workload with too few samples
\* whose usage and allocation would otherwise yield recommendations, next to
\* a workload that did get one
C2_Witness ==
    /\ pc = "done" /\ recommendations # <<>>
    /\ \E pod \in 1..Len(dbMetrics) :
          /\ dbMetrics[pod].dataPoints < minDataPoints
          /\ ~dbMetrics[pod].nullStats
          /\ allocLookup[pod].kind = "row"
          /\ RowRecommendations([pod |-> pod, g |-> dbMetrics[pod]],
                                allocLookup[pod]) # <<>>

\* C8: a run whose context is cancelled while it iterates the workloads ends
\* with a failure, never with a successful partial result.
C8_CancelAbortsWithFailure ==
    (pc = "done" /\ cancelledAt >= 0) => retErr # "nil"

\* C9: a per-workload lookup that fails because the store cannot be reached
\* is reported to the caller as an error, not dropped.
C9_StoreFailureReported ==
    (pc = "done" /\ \E i \in 1..Len(logged) : logged[i].err = "connError")
        => retErr # "nil"

\* C10: a workload whose current allocation is not found gets no
\* recommendation, every other processed workload keeps exactly the
\* recommendations computed for it, and no workload ends the run early or
\* with an error.
C10_MissingAllocationSkipped ==
    /\ \A i \in 1..rowIdx :
          RecsOfPod(rows[i].pod) =
              IF allocLookup[rows[i].pod].kind = "ErrNoRows" THEN <<>>
              ELSE IF rows[i].pod \in LoggedPods THEN <<>>
              ELSE RowRecommendations(rows[i], allocLookup[rows[i].pod])
    /\ (pc = "done" /\ retErr # "nil") => rowIdx = 0
    /\ (pc = "done" /\ retErr = "nil" /\ ~ctxCancelled) => rowIdx = Len(rows)

\* a finished, uncancelled run in which a workload without allocation was met
\* first and a later workload still got its recommendations
C10_Witness ==
    /\ pc = "done" /\ ~ctxCancelled
    /\ \E i, j \in 1..Len(rows) :
          /\ i < j
          /\ ~rows[i].g.nullStats
          /\ allocLookup[rows[i].pod].kind = "ErrNoRows"
          /\ RecsOfPod(rows[j].pod) # <<>>

----------------------------------------------------------------------------
(* Handler.SimulateCosts (backend/internal/api/handlers.go).               *)
(* A float64 that is not finite is written [n, d] with d = 0: n = 0 for     *)
(* NaN, 1 for +Inf and -1 for -Inf.                                         *)

RAdd(a, b) ==
    LET l == (a.d \div GCD(a.d, b.d)) * b.d
    IN  Rat(a.n * (l \div a.d) + b.n * (l \div b.d), l)

Sign(i) == IF i > 0 THEN 1 ELSE IF i < 0 THEN -1 ELSE 0

IsFinite(x) == x.d # 0

\* float64 division a / b of finite values
FDiv(a, b) ==
    IF b.n = 0 THEN [n |-> Sign(a.n), d |-> 0]
    ELSE RMul(a, [n |-> Sign(b.n) * b.d, d |-> Abs(b.n)])

\* float64 product a * k for a positive finite k
FScale(a, k) == IF IsFinite(a) THEN RMul(a, k) ELSE a

MaxChanges == 2

\* the entries of request.Changes the model posts
ChangeOptions ==
    { [pod |-> 1, cpuRequest |-> 207, memoryRequest |-> 100000000, replicas |-> 1],
      [pod |-> 1, cpuRequest |-> 500, memoryRequest |-> 250000000, replicas |-> 2],
      [pod |-> 2, cpuRequest |-> 10, memoryRequest |-> 64000000, replicas |-> 3] }

RECURSIVE SeqsUpTo(_, _)
SeqsUpTo(S, n) ==
    IF n = 0 THEN {<<>>}
    ELSE LET shorter == SeqsUpTo(S, n - 1)
         IN  shorter \cup { Append(q, x) : q \in shorter, x \in S }

Periods == {"daily", "monthly", "yearly", "weekly"}

InvalidRequest == [valid |-> FALSE, changes |-> <<>>, period |-> ""]

SimRequests ==
    { [valid |-> TRUE, changes |-> c, period |-> p] :
          c \in SeqsUpTo(ChangeOptions, MaxChanges), p \in Periods }
    \cup {InvalidRequest}

\* SUM(...) over the last hour: a total, or a Scan error (no rows, no store)
CostOutcomes == { [kind |-> "err", total |-> Int2Rat(0)],
                  [kind |-> "row", total |-> Rat(5, 2)] }

\* two invocations of the handler on the same request body
Handlers == {1, 2}

SimPods == {1, 2}

\* getCurrentCosts: 0 on any error
getCurrentCosts(outcome) ==
    IF outcome.kind = "err" THEN Int2Rat(0) ELSE outcome.total

\* getCurrentAllocation: an all-zero map on any error
getCurrentAllocation(lookup) ==
    IF lookup.kind # "row"
    THEN [cpu_request |-> 0, cpu_limit |-> 0, memory_request |-> 0, memory_limit |-> 0]
    ELSE [cpu_request |-> lookup.cpuRequest, cpu_limit |-> lookup.cpuLimit,
          memory_request |-> lookup.memoryRequest, memory_limit |-> lookup.memoryLimit]

\* Mutant of ChangeDelta: the replica count is not applied.
ChangeDelta_NoReplicas(change, current) ==
    RAdd(RMul(Int2Rat(change.cpuRequest - current.cpu_request), Rat(1, 100000)),
         RMul(Int2Rat(change.memoryRequest - current.memory_request), Rat(1, 100000000)))

\* cpuDelta + memoryDelta of one change
ChangeDelta(change, current) ==
    LET cpuDelta == RMul(RMul(Int2Rat(change.cpuRequest - current.cpu_request),
                              Rat(1, 100000)),
                         Int2Rat(change.replicas))
        memoryDelta == RMul(RMul(Int2Rat(change.memoryRequest - current.memory_request),
                                 Rat(1, 100000000)),
                            Int2Rat(change.replicas))
    IN  RAdd(cpuDelta, memoryDelta)

\* Mutant of PeriodMultiplier: a month of 31 days.
PeriodMultiplier_Month31(period) ==
    CASE period = "daily" -> 24
      [] period = "monthly" -> 24 * 31
      [] period = "yearly" -> 24 * 365
      [] OTHER -> 24 * 31

\* switch request.Period
PeriodMultiplier(period) ==
    CASE period = "daily" -> 24
      [] period = "monthly" -> 24 * 30
      [] period = "yearly" -> 24 * 365
      [] OTHER -> 24 * 30

\* Mutant of SavingsPercent: the quotient is not scaled to a percentage.
SavingsPercent_Fraction(savings, currentCosts, multiplier) ==
    FDiv(savings, RMul(currentCosts, multiplier))

\* "savings_percent": (savings / (currentCosts * multiplier)) * 100
SavingsPercent(savings, currentCosts, multiplier) ==
    FScale(FDiv(savings, RMul(currentCosts, multiplier)), Int2Rat(100))

\* Mutant of Breakdown: "other" takes 10% of the projected cost.
Breakdown_Other10(projectedCost) ==
    [compute |-> RMul(projectedCost, Rat(6, 10)),
     storage |-> RMul(projectedCost, Rat(2, 10)),
     network |-> RMul(projectedCost, Rat(15, 100)),
     other |-> RMul(projectedCost, Rat(10, 100))]

\* "breakdown": compute 0.6, storage 0.2, network 0.15, other 0.05
Breakdown(projectedCost) ==
    [compute |-> RMul(projectedCost, Rat(6, 10)),
     storage |-> RMul(projectedCost, Rat(2, 10)),
     network |-> RMul(projectedCost, Rat(15, 100)),
     other |-> RMul(projectedCost, Rat(5, 100))]

\* the response map built from currentCosts, costDelta and the period
SimResponse(currentCosts, costDelta, period) ==
    LET multiplier == Int2Rat(PeriodMultiplier(period))
        projectedCost == RMul(RAdd(currentCosts, costDelta), multiplier)
        savings == RSub(RMul(currentCosts, multiplier), projectedCost)
    IN  [current_cost |-> RMul(currentCosts, multiplier),
         projected_cost |-> projectedCost,
         cost_difference |-> RMul(costDelta, multiplier),
         savings |-> savings,
         savings_percent |-> SavingsPercent(savings, currentCosts, multiplier),
         breakdown |-> Breakdown(projectedCost)]

\* json.NewEncoder(w).Encode(response): encoding/json refuses NaN and +-Inf,
\* the error is dropped and nothing is written
EncodedBody(response) ==
    IF IsFinite(response.savings_percent) THEN "json" ELSE "empty"

simFrame == <<calcVars, cbVars, retryVars, sumVars, wsVars, cacheVars, dbMetrics,
              dbReachable, ctxCancelled, cancelledAt, pc, rows, rowIdx,
              recommendations, retErr, logged>>

SimInit ==
    /\ CalcIdle /\ CBIdle /\ RetryIdle /\ SumIdle /\ WsIdle /\ CacheIdle
    /\ dbMetrics = <<>> /\ dbReachable = TRUE /\ ctxCancelled = FALSE
    /\ cancelledAt = -1 /\ pc = "idle" /\ rows = <<>> /\ rowIdx = 0
    /\ recommendations = <<>> /\ retErr = "nil" /\ logged = <<>>
    /\ allocLookup \in [SimPods -> AllocOutcomes]
    /\ nsCost \in CostOutcomes
    /\ simReq \in SimRequests
    /\ sim = [h \in Handlers |->
                 [pc |-> "decode", currentCosts |-> Int2Rat(0),
                  costDelta |-> Int2Rat(0), idx |-> 0,
                  response |-> <<>>, body |-> "none"]]

\* json Decode fails: http.Error(w, "Invalid request", 400)
SimBadRequest(h) ==
    /\ sim[h].pc = "decode" /\ ~simReq.valid
    /\ sim' = [sim EXCEPT ![h].pc = "done", ![h].body = "400"]
    /\ UNCHANGED <<simFrame, allocLookup, nsCost, simReq>>

\* decode, then currentCosts := h.getCurrentCosts(...); costDelta := 0.0
SimGetCurrentCosts(h) ==
    /\ sim[h].pc = "decode" /\ simReq.valid
    /\ sim' = [sim EXCEPT ![h].pc = "loop",
                          ![h].currentCosts = getCurrentCosts(nsCost),
                          ![h].costDelta = Int2Rat(0)]
    /\ UNCHANGED <<simFrame, allocLookup, nsCost, simReq>>

\* Mutant of SimChange: the proposed requests are stored as the allocation.
SimChange_Apply(h) ==
    /\ sim[h].pc = "loop" /\ sim[h].idx < Len(simReq.changes)
    /\ LET change == simReq.changes[sim[h].idx + 1]
           current == getCurrentAllocation(allocLookup[change.pod])
       IN  /\ sim' = [sim EXCEPT ![h].idx = @ + 1,
                                 ![h].costDelta = RAdd(@, ChangeDelta(change, current))]
           /\ allocLookup' = [allocLookup EXCEPT ![change.pod] =
                                 [kind |-> "row",
                                  cpuRequest |-> change.cpuRequest,
                                  cpuLimit |-> current.cpu_limit,
                                  memoryRequest |-> change.memoryRequest,
                                  memoryLimit |-> current.memory_limit]]
    /\ UNCHANGED <<simFrame, nsCost, simReq>>

\* one iteration of for _, change := range request.Changes
SimChange(h) ==
    /\ sim[h].pc = "loop" /\ sim[h].idx < Len(simReq.changes)
    /\ LET change == simReq.changes[sim[h].idx + 1]
           current == getCurrentAllocation(allocLookup[change.pod])
       IN  sim' = [sim EXCEPT ![h].idx = @ + 1,
                              ![h].costDelta = RAdd(@, ChangeDelta(change, current))]
    /\ UNCHANGED <<simFrame, allocLookup, nsCost, simReq>>

\* multiplier, response map, Encode
SimRespond(h) ==
    /\ sim[h].pc = "loop" /\ sim[h].idx = Len(simReq.changes)
    /\ LET response == SimResponse(sim[h].currentCosts, sim[h].costDelta, simReq.period)
       IN  sim' = [sim EXCEPT ![h].pc = "done",
                              ![h].response = response,
                              ![h].body = EncodedBody(response)]
    /\ UNCHANGED <<simFrame, allocLookup, nsCost, simReq>>

SimNext ==
    \E h \in Handlers :
        \/ SimBadRequest(h)
        \/ SimGetCurrentCosts(h)
        \/ SimChange(h)
        \/ SimRespond(h)

SpecSim == SimInit /\ [][SimNext]_vars

\* the stored hourly cost of the namespace, 0 when there is none
Baseline == IF nsCost.kind = "row" THEN nsCost.total ELSE Int2Rat(0)

\* the stored requests of a workload, 0 when there are none
StoredRequests(pod) ==
    IF allocLookup[pod].kind = "row"
    THEN [cpu |-> allocLookup[pod].cpuRequest, memory |-> allocLookup[pod].memoryRequest]
    ELSE [cpu |-> 0, memory |-> 0]

ClaimedDelta(change) ==
    RAdd(RMul(RMul(Int2Rat(change.cpuRequest - StoredRequests(change.pod).cpu),
                   costPerMillicore), Int2Rat(change.replicas)),
         RMul(RMul(Int2Rat(change.memoryRequest - StoredRequests(change.pod).memory),
                   costPerByte), Int2Rat(change.replicas)))

RECURSIVE SumOfDeltas(_)
SumOfDeltas(changes) ==
    IF changes = <<>> THEN Int2Rat(0)
    ELSE RAdd(ClaimedDelta(Head(changes)), SumOfDeltas(Tail(changes)))

ClaimedMultiplier(period) ==
    Int2Rat(CASE period = "daily" -> 24 [] period = "monthly" -> 720
              [] period = "yearly" -> 8760)

Answered(h) == sim[h].pc = "done" /\ simReq.valid

\* C11: for every list of changes and every period in {daily, monthly,
\* yearly}, the response carries projected_cost = (baseline + sum of the
\* changes' deltas) * multiplier and savings = baseline * multiplier -
\* projected_cost, with multiplier 24, 720, 8760 and each delta =
\* (proposed - current request) * unit cost * replicas, CPU plus memory.
C11_ProjectedCostAndSavings ==
    \A h \in Handlers :
        (Answered(h) /\ simReq.period \in {"daily", "monthly", "yearly"}) =>
            LET m == ClaimedMultiplier(simReq.period)
                projected == RMul(RAdd(Baseline, SumOfDeltas(simReq.changes)), m)
            IN  /\ sim[h].response.projected_cost = projected
                /\ sim[h].response.savings = RSub(RMul(Baseline, m), projected)

C11_Witness ==
    /\ Answered(1) /\ simReq.period = "yearly" /\ Len(simReq.changes) = 2
    /\ simReq.changes[1].replicas = 2 /\ simReq.changes[2].replicas = 3
    /\ Baseline.n # 0 /\ sim[1].response.savings.n > 0

\* C12 as stated: with a non-zero baseline, savings_percent is the fraction
\* savings / (baseline * multiplier).
C12_SavingsPercentIsFraction ==
    \A h \in Handlers :
        (Answered(h) /\ Baseline.n # 0) =>
            sim[h].response.savings_percent =
                FDiv(sim[h].response.savings, sim[h].response.current_cost)

\* C12 amended: with a non-zero baseline, savings_percent is 100 times
\* savings / (baseline * multiplier), a percentage of the baseline cost.
C12_SavingsPercentIsPercentage ==
    \A h \in Handlers :
        (Answered(h) /\ Baseline.n # 0) =>
            /\ sim[h].response.current_cost =
                   RMul(Baseline, Int2Rat(PeriodMultiplier(simReq.period)))
            /\ sim[h].response.savings_percent =
                   RMul(Int2Rat(100),
                        FDiv(sim[h].response.savings, sim[h].response.current_cost))

C12_Witness ==
    /\ Answered(2) /\ Baseline.n # 0 /\ sim[2].response.savings.n < 0
    /\ sim[2].body = "json"

SingleMonthlyChange ==
    /\ simReq.valid /\ simReq.period = "monthly" /\ Len(simReq.changes) = 1
    /\ simReq.changes[1].replicas = 1
    /\ allocLookup[simReq.changes[1].pod].kind = "row"

\* C13: for one workload and one change of its requests (replicas = 1,
\* monthly), the simulated savings equal the savings the recommender's
\* formula gives for that change: CPU and memory at the recommender's unit
\* costs over 720 hours.
C13_SavingsAgreeWithRecommender ==
    \A h \in Handlers :
        (Answered(h) /\ SingleMonthlyChange) =>
            LET change == simReq.changes[1]
                stored == StoredRequests(change.pod)
            IN  sim[h].response.savings =
                    RAdd(MonthlySavings(Int2Rat(stored.cpu), Int2Rat(change.cpuRequest),
                                        costPerMillicore),
                         MonthlySavings(Int2Rat(stored.memory),
                                        Int2Rat(change.memoryRequest), costPerByte))

C13_Witness ==
    /\ Answered(1) /\ SingleMonthlyChange /\ Baseline.n # 0
    /\ sim[1].response.savings.n > 0

StoredState == <<allocLookup, nsCost, dbMetrics>>

C15_BreakdownRatios ==
    \A h \in Handlers :
        Answered(h) =>
            LET b == sim[h].response.breakdown
                projected == sim[h].response.projected_cost
            IN  /\ b.compute = RMul(Rat(60, 100), projected)
                /\ b.storage = RMul(Rat(20, 100), projected)
                /\ b.network = RMul(Rat(15, 100), projected)
                /\ b.other = RMul(Rat(5, 100), projected)
                /\ RAdd(RAdd(b.compute, b.storage), RAdd(b.network, b.other)) = projected

C15_Witness ==
    /\ Answered(1) /\ sim[1].response.projected_cost.n # 0
    /\ sim[1].response.breakdown.other.n # 0

----------------------------------------------------------------------------
(* CircuitBreaker (backend/pkg/resilience/circuit_breaker.go).             *)
(* Execute runs in several goroutines on one breaker.  canExecute decides   *)
(* under the read lock; when the breaker is open and the timeout is over it *)
(* gives the read lock up and takes the write lock to set StateHalfOpen, so *)
(* that write is a step of its own.  fn runs outside the locks and          *)
(* recordResult runs under the write lock.                                  *)
(* cbHist observes the run: calls counts the Execute calls made, rejected   *)
(* those answered "circuit breaker is open", invoked the fn invocations,   *)
(* consec the failures recorded since the last recorded success, trials the *)
(* fn invocations admitted in the current half-open period and trialOks the *)
(* successes they recorded since the last recorded failure.                 *)

StateClosed == "closed"
StateOpen == "open"
StateHalfOpen == "halfOpen"

successThreshold == 3

NumCallers == 4
MaxCalls == 5
MaxTime == 3
CBTimeout == 1

Callers == 1..NumCallers
Thresholds == {1, 2}

NewCircuitBreaker(threshold, timeout) ==
    [state |-> StateClosed, failures |-> 0, threshold |-> threshold,
     timeout |-> timeout, lastFailure |-> 0, successes |-> 0,
     successThreshold |-> successThreshold]

\* Mutant of CooldownOver: the timeout is not consulted.
CooldownOver_Always(b, t) == t >= b.lastFailure

\* time.Since(cb.lastFailure) > cb.timeout
CooldownOver(b, t) == t - b.lastFailure > b.timeout

\* Mutant of recordResult: the breaker opens one failure late.
recordResult_OpensLate(b, failed, t) ==
    IF failed
    THEN LET f == b.failures + 1
         IN  [b EXCEPT !.failures = f, !.lastFailure = t, !.successes = 0,
                       !.state = IF b.state = StateClosed /\ f > b.threshold
                                 THEN StateOpen
                                 ELSE IF b.state = StateHalfOpen THEN StateOpen
                                 ELSE b.state]
    ELSE LET k == b.successes + 1
         IN  [b EXCEPT !.failures = 0, !.successes = k,
                       !.state = IF b.state = StateHalfOpen /\ k >= b.successThreshold
                                 THEN StateClosed ELSE b.state]

\* recordResult(err) at time t
recordResult(b, failed, t) ==
    IF failed
    THEN LET f == b.failures + 1
         IN  [b EXCEPT !.failures = f, !.lastFailure = t, !.successes = 0,
                       !.state = IF b.state = StateClosed /\ f >= b.threshold
                                 THEN StateOpen
                                 ELSE IF b.state = StateHalfOpen THEN StateOpen
                                 ELSE b.state]
    ELSE LET k == b.successes + 1
         IN  [b EXCEPT !.failures = 0, !.successes = k,
                       !.state = IF b.state = StateHalfOpen /\ k >= b.successThreshold
                                 THEN StateClosed ELSE b.state]

IdleCall == [pc |-> "idle", stale |-> FALSE]

cbFrame == <<calcVars, nsVars, simVars, retryVars, sumVars, wsVars, cacheVars>>

CBInit ==
    /\ CalcIdle /\ NsIdle /\ SimIdle /\ RetryIdle /\ SumIdle /\ WsIdle /\ CacheIdle
    /\ cb \in { NewCircuitBreaker(th, CBTimeout) : th \in Thresholds }
    /\ cbCall = [c \in Callers |-> IdleCall]
    /\ now = 0
    /\ cbHist = [calls |-> 0, rejected |-> 0, invoked |-> 0, consec |-> 0,
                 trials |-> 0, trialOks |-> 0]

\* Execute: canExecute returns true (closed or half-open) and fn is called
ExecuteAdmit(c) ==
    /\ cbCall[c].pc = "idle" /\ cbHist.calls < MaxCalls
    /\ cb.state \in {StateClosed, StateHalfOpen}
    /\ cbCall' = [cbCall EXCEPT ![c] = [pc |-> "fn", stale |-> FALSE]]
    /\ cbHist' = [cbHist EXCEPT !.calls = @ + 1, !.invoked = @ + 1,
                                !.trials = IF cb.state = StateHalfOpen
                                           THEN @ + 1 ELSE @]
    /\ UNCHANGED <<cbFrame, cb, now>>

\* Execute: canExecute finds the breaker open and the timeout over, and
\* releases the read lock to take the write lock
ExecuteCooldownOver(c) ==
    /\ cbCall[c].pc = "idle" /\ cbHist.calls < MaxCalls
    /\ cb.state = StateOpen /\ CooldownOver(cb, now)
    /\ cbCall' = [cbCall EXCEPT ![c] = [pc |-> "switch", stale |-> FALSE]]
    /\ cbHist' = [cbHist EXCEPT !.calls = @ + 1]
    /\ UNCHANGED <<cbFrame, cb, now>>

\* Execute: canExecute returns false, "circuit breaker is open"
ExecuteReject(c) ==
    /\ cbCall[c].pc = "idle" /\ cbHist.calls < MaxCalls
    /\ cb.state = StateOpen /\ ~CooldownOver(cb, now)
    /\ cbHist' = [cbHist EXCEPT !.calls = @ + 1, !.rejected = @ + 1]
    /\ UNCHANGED <<cbFrame, cb, cbCall, now>>

\* canExecute under the write lock: cb.state = StateHalfOpen, return true;
\* fn is called
SetHalfOpen(c) ==
    /\ cbCall[c].pc = "switch"
    /\ cb' = [cb EXCEPT !.state = StateHalfOpen]
    /\ cbCall' = [cbCall EXCEPT ![c].pc = "fn"]
    /\ cbHist' = [cbHist EXCEPT !.invoked = @ + 1,
                                !.trials = IF cb.state = StateHalfOpen
                                           THEN @ + 1 ELSE 1,
                                !.trialOks = IF cb.state = StateHalfOpen
                                             THEN @ ELSE 0]
    /\ UNCHANGED <<cbFrame, now>>

\* fn returns and Execute calls recordResult
RecordResult(c) ==
    /\ cbCall[c].pc = "fn"
    /\ \E failed \in BOOLEAN :
          LET after == recordResult(cb, failed, now)
              opens == after.state = StateOpen /\ cb.state # StateOpen
          IN  /\ cb' = after
              /\ cbCall' = [d \in Callers |->
                               IF d = c THEN IdleCall
                               ELSE IF opens /\ cbCall[d].pc # "idle"
                                    THEN [cbCall[d] EXCEPT !.stale = TRUE]
                                    ELSE cbCall[d]]
              /\ cbHist' = [cbHist EXCEPT
                               !.consec = IF failed THEN @ + 1 ELSE 0,
                               !.trialOks =
                                   IF failed THEN 0
                                   ELSE IF cb.state = StateHalfOpen /\ ~cbCall[c].stale
                                        THEN @ + 1 ELSE @]
    /\ UNCHANGED <<cbFrame, now>>

\* time passes
Tick ==
    /\ now < MaxTime
    /\ now' = now + 1
    /\ UNCHANGED <<cbFrame, cb, cbCall, cbHist>>

CBNext ==
    \/ Tick
    \/ \E c \in Callers :
          \/ ExecuteAdmit(c)
          \/ ExecuteCooldownOver(c)
          \/ ExecuteReject(c)
          \/ SetHalfOpen(c)
          \/ RecordResult(c)

SpecCB == CBInit /\ [][CBNext]_vars

\* a step in which some Execute call records its result
Recorded == \E c \in Callers : cbCall[c].pc = "fn" /\ cbCall'[c].pc = "idle"

FailureRecorded == Recorded /\ cbHist'.consec = cbHist.consec + 1

SuccessRecorded == Recorded /\ cbHist'.consec = 0

\* a step in which some Execute call runs canExecute
ExecuteCalled == cbHist'.calls = cbHist.calls + 1

\* C16: a closed breaker opens exactly when the failures recorded in a row
\* reach the threshold: it stays closed below the threshold, it opens at
\* the failure that reaches it, and a recorded success resets the count.
C16_OpensAtThreshold ==
    [][/\ cb.state = StateClosed =>
              /\ cbHist.consec < cb.threshold
              /\ cb.failures = cbHist.consec
              /\ (cb'.state = StateOpen) <=>
                     (FailureRecorded /\ cbHist'.consec = cb.threshold)
              /\ (FailureRecorded /\ cbHist'.consec < cb.threshold) =>
                     cb'.state = StateClosed
       /\ SuccessRecorded => cb'.failures = 0]_vars

C16_Witness ==
    /\ cb.state = StateOpen /\ cb.threshold = 2 /\ cbHist.consec = 2
    /\ cbHist.invoked = 3 /\ \A c \in Callers : cbCall[c].pc = "idle"

\* C17: an Execute call made while the breaker is open and the timeout
\* since the last recorded failure is not over returns the error at once:
\* fn is not invoked and the breaker and the other calls are left as they
\* are.
C17_OpenRejects ==
    [][(ExecuteCalled /\ cb.state = StateOpen /\ now - cb.lastFailure <= cb.timeout) =>
           /\ cbHist'.rejected = cbHist.rejected + 1
           /\ cbHist'.invoked = cbHist.invoked
           /\ cb' = cb
           /\ cbCall' = cbCall]_vars

C17_Witness ==
    /\ cb.state = StateOpen /\ cbHist.rejected >= 2 /\ now - cb.lastFailure = cb.timeout

\* C18: while the breaker is half-open, the fn invocations admitted since it
\* became half-open number at most successThreshold, however many callers
\* call Execute.
C18_BoundedTrials ==
    cb.state = StateHalfOpen => cbHist.trials <= successThreshold

\* C19: a half-open breaker opens on any recorded failure, and closes only
\* when successThreshold successes in a row have been recorded by calls
\* admitted since it became half-open.
C19_ClosesOnTrialSuccesses ==
    [][cb.state = StateHalfOpen =>
           /\ FailureRecorded => cb'.state = StateOpen
           /\ cb'.state = StateClosed => cbHist'.trialOks >= successThreshold]_vars

----------------------------------------------------------------------------
(* Retry and RetryWithResult (backend/pkg/resilience/retry.go).            *)
(* The k-th invocation of fn returns either the value <<"value", k>> or the *)
(* error <<"fn", k>>; retry.outcomes lists, per invocation, whether it      *)
(* succeeded; retry.cancelPc and retry.cancelCalls record where Retry stood  *)
(* and how many invocations had been made when ctx was cancelled.           *)

MaxAttemptsBound == 3

AttemptLimits == -1..MaxAttemptsBound

NilErr == [kind |-> "nil", at |-> 0]
CtxErr == [kind |-> "ctx", at |-> 0]
FnErr(k) == [kind |-> "fn", at |-> k]

ZeroValue == [kind |-> "zero", at |-> 0]
FnValue(k) == [kind |-> "value", at |-> k]

\* the state of one call of fnName at its first loop test
RetryStart(fnName, maxAttempts, zeroDelay) ==
    [fn |-> fnName, MaxAttempts |-> maxAttempts, zeroDelay |-> zeroDelay,
     pc |-> "loop", attempt |-> 0, lastErr |-> NilErr, ctxDone |-> FALSE,
     ret |-> NilErr, result |-> ZeroValue, outcomes |-> <<>>,
     cancelPc |-> "none", cancelCalls |-> 0]

\* return (zero,) err
Returned(r, err) == [r EXCEPT !.pc = "done", !.ret = err, !.result = ZeroValue]

\* Mutant of AfterCall: lastErr keeps the first error.
AfterCall_KeepsFirstError(r, ok) ==
    LET k == Len(r.outcomes) + 1
        called == [r EXCEPT !.outcomes = Append(@, ok)]
    IN  IF ok
        THEN [called EXCEPT !.pc = "done", !.ret = NilErr,
                            !.result = IF r.fn = "RetryWithResult"
                                       THEN FnValue(k) ELSE ZeroValue]
        ELSE LET failed == [called EXCEPT !.lastErr = IF @ = NilErr THEN FnErr(k) ELSE @]
             IN  IF r.attempt = r.MaxAttempts - 1
                 THEN Returned(failed, failed.lastErr)
                 ELSE [failed EXCEPT !.pc = "wait"]

\* fn() has returned: return on success, else lastErr = err and break on
\* the last attempt
AfterCall(r, ok) ==
    LET k == Len(r.outcomes) + 1
        called == [r EXCEPT !.outcomes = Append(@, ok)]
    IN  IF ok
        THEN [called EXCEPT !.pc = "done", !.ret = NilErr,
                            !.result = IF r.fn = "RetryWithResult"
                                       THEN FnValue(k) ELSE ZeroValue]
        ELSE LET failed == [called EXCEPT !.lastErr = FnErr(k)]
             IN  IF r.attempt = r.MaxAttempts - 1
                 THEN Returned(failed, failed.lastErr)
                 ELSE [failed EXCEPT !.pc = "wait"]

retryFrame == <<calcVars, nsVars, simVars, cbVars, sumVars, wsVars, cacheVars>>

RetryInit ==
    /\ CalcIdle /\ NsIdle /\ SimIdle /\ CBIdle /\ SumIdle /\ WsIdle /\ CacheIdle
    /\ retry \in { RetryStart(f, m, z) : f \in {"Retry", "RetryWithResult"},
                                         m \in AttemptLimits, z \in BOOLEAN }

\* attempt < config.MaxAttempts is false: return lastErr
RetryLoopExit ==
    /\ retry.pc = "loop" /\ ~(retry.attempt < retry.MaxAttempts)
    /\ retry' = Returned(retry, retry.lastErr)
    /\ UNCHANGED retryFrame

\* Mutant of RetryCtxDone: the select at the top of the loop is missing.
RetryCtxDone_NotChecked ==
    /\ retry.pc = "loop" /\ retry.attempt < retry.MaxAttempts /\ retry.ctxDone
    /\ retry' = [retry EXCEPT !.pc = "fn"]
    /\ UNCHANGED retryFrame

\* select at the top of the loop: <-ctx.Done()
RetryCtxDone ==
    /\ retry.pc = "loop" /\ retry.attempt < retry.MaxAttempts /\ retry.ctxDone
    /\ retry' = Returned(retry, CtxErr)
    /\ UNCHANGED retryFrame

\* Mutant of RetryProceed: the loop runs while attempt <= MaxAttempts.
RetryProceed_Inclusive ==
    /\ retry.pc = "loop" /\ retry.attempt <= retry.MaxAttempts /\ ~retry.ctxDone
    /\ retry' = [retry EXCEPT !.pc = "fn"]
    /\ UNCHANGED retryFrame

\* select at the top of the loop: default
RetryProceed ==
    /\ retry.pc = "loop" /\ retry.attempt < retry.MaxAttempts /\ ~retry.ctxDone
    /\ retry' = [retry EXCEPT !.pc = "fn"]
    /\ UNCHANGED retryFrame

\* fn() runs and returns
RetryCall ==
    /\ retry.pc = "fn"
    /\ \E ok \in BOOLEAN : retry' = AfterCall(retry, ok)
    /\ UNCHANGED retryFrame

\* select after the attempt: <-ctx.Done()
RetryWaitCtxDone ==
    /\ retry.pc = "wait" /\ retry.ctxDone
    /\ retry' = Returned(retry, CtxErr)
    /\ UNCHANGED retryFrame

\* select after the attempt: <-time.After(delay); with a zero delay the
\* timer can be ready together with ctx.Done() and select takes either
RetryWaitTimer ==
    /\ retry.pc = "wait" /\ (~retry.ctxDone \/ retry.zeroDelay)
    /\ retry' = [retry EXCEPT !.pc = "loop", !.attempt = @ + 1]
    /\ UNCHANGED retryFrame

\* the caller cancels ctx
RetryCancel ==
    /\ retry.pc # "done" /\ ~retry.ctxDone
    /\ retry' = [retry EXCEPT !.ctxDone = TRUE, !.cancelPc = retry.pc,
                              !.cancelCalls = Len(retry.outcomes)]
    /\ UNCHANGED retryFrame

RetryStep ==
    \/ RetryLoopExit
    \/ RetryCtxDone
    \/ RetryProceed
    \/ RetryCall
    \/ RetryWaitCtxDone
    \/ RetryWaitTimer

RetryNext == RetryStep \/ RetryCancel

\* the goroutine running Retry is scheduled, fn returns and timers fire
SpecRetry == RetryInit /\ [][RetryNext]_vars /\ WF_vars(RetryStep)

Invocations == Len(retry.outcomes)

AllFailed(outcomes) == \A i \in 1..Len(outcomes) : ~outcomes[i]

RetryInv ==
    (retry.MaxAttempts >= 1 /\ ~retry.ctxDone) =>
        /\ Invocations <= retry.MaxAttempts
        /\ \A i \in 1..(Invocations - 1) : ~retry.outcomes[i]
        /\ (Invocations >= 1 /\ retry.outcomes[Invocations]) =>
               /\ retry.pc = "done" /\ retry.ret = NilErr
               /\ retry.fn = "RetryWithResult" => retry.result = FnValue(Invocations)
        /\ (Invocations = retry.MaxAttempts /\ AllFailed(retry.outcomes)) =>
               /\ retry.pc = "done" /\ retry.ret = FnErr(retry.MaxAttempts)
               /\ retry.result = ZeroValue
        /\ retry.pc = "done" =>
               \/ retry.outcomes[Invocations]
               \/ Invocations = retry.MaxAttempts

\* C20: with MaxAttempts >= 1 and a context that is not cancelled, fn is
\* invoked at most MaxAttempts times, the first success is returned at once
\* and ends the invocations, MaxAttempts failures end the call with the
\* error of the last attempt, and the call terminates.
C20_RetryBounded ==
    /\ []RetryInv
    /\ retry.MaxAttempts >= 1 => <>(retry.pc = "done" \/ retry.ctxDone)

C20_Witness ==
    /\ retry.pc = "done" /\ retry.MaxAttempts = 3 /\ ~retry.ctxDone
    /\ Invocations = 3 /\ retry.ret = FnErr(3)

\* Retry stands at one of its two selects on ctx.Done()
AtSelect ==
    \/ retry.pc = "wait"
    \/ retry.pc = "loop" /\ retry.attempt < retry.MaxAttempts

\* the invocations made after cancellation are at most the attempt that had
\* passed its select before ctx was cancelled
NoAttemptAfterCancel ==
    retry.ctxDone =>
        Invocations <= retry.cancelCalls + (IF retry.cancelPc = "fn" THEN 1 ELSE 0)

\* C21: once ctx is cancelled Retry starts no further attempt, and a select
\* that finds ctx cancelled, before an attempt or during the backoff wait,
\* makes Retry return ctx.Err(): from either select the call ends with the
\* context's error and the zero value.
C21_CancelStopsRetry ==
    /\ []NoAttemptAfterCancel
    /\ [][(retry.ctxDone /\ AtSelect /\ retry'.pc = "done") =>
              (retry'.ret = CtxErr /\ retry'.result = ZeroValue)]_vars
    /\ (retry.ctxDone /\ AtSelect) ~> (retry.pc = "done" /\ retry.ret = CtxErr)

C21_Witness ==
    /\ retry.pc = "done" /\ retry.ret = CtxErr /\ retry.cancelPc = "wait"
    /\ retry.MaxAttempts = 3 /\ Invocations = 1

\* C30: with MaxAttempts <= 0, Retry and RetryWithResult never invoke fn
\* and return a nil error, RetryWithResult with the zero value.
C30_NoAttemptsReportsSuccess ==
    retry.MaxAttempts <= 0 =>
        /\ Invocations = 0
        /\ retry.pc \in {"loop", "done"}
        /\ retry.pc = "done" => (retry.ret = NilErr /\ retry.result = ZeroValue)

C30_Witness ==
    /\ retry.pc = "done" /\ retry.MaxAttempts = 0 /\ retry.fn = "RetryWithResult"
    /\ retry.ret = NilErr /\ retry.result = ZeroValue /\ Invocations = 0

\* C25: the breaker becomes half-open only from the open state and only
\* when more than the timeout has passed since the last recorded failure, so
\* a canExecute that saw the timeout over never overwrites a closed state or
\* an open state with a newer failure.
C25_HalfOpenOnlyAfterCooldown ==
    [][(cb'.state = StateHalfOpen /\ cb.state # StateHalfOpen) =>
           (cb.state = StateOpen /\ now - cb.lastFailure > cb.timeout)]_vars

----------------------------------------------------------------------------
(* RightsizingAnalyzer.GetOptimizationSummary: AnalyzeNamespace, then one   *)
(* pass over the recommendations it returned.                               *)

BurstyUsage == [BusyUsage EXCEPT !.stddev = 60]

SpikyUsage == [BusyUsage EXCEPT !.stddev = 100]

\* workloads of low, medium and high variability, with few and many samples
SummaryGroups ==
    { [cpu |-> u, mem |-> Scale(u, 500000), dataPoints |-> 500, nullStats |-> FALSE] :
          u \in {BusyUsage, SpikyUsage} }
    \cup
    { [cpu |-> u, mem |-> Scale(u, 500000), dataPoints |-> 2000, nullStats |-> FALSE] :
          u \in {SteadyUsage, BurstyUsage} }
    \cup
    { [cpu |-> BusyUsage, mem |-> Scale(BusyUsage, 500000),
       dataPoints |-> 500, nullStats |-> TRUE] }

EmptyTotals ==
    [totalSavings |-> Int2Rat(0), cpuSavings |-> Int2Rat(0), memorySavings |-> Int2Rat(0),
     highConfidenceCount |-> 0, mediumConfidenceCount |-> 0, lowConfidenceCount |-> 0,
     highRiskCount |-> 0, mediumRiskCount |-> 0, lowRiskCount |-> 0]

Bump(cond) == IF cond THEN 1 ELSE 0

\* Mutant of AddRecommendation: only CPU savings enter totalSavings.
AddRecommendation_CpuTotal(t, rec) ==
    LET high == RLe(Rat(8, 10), rec.Confidence)
        medium == ~high /\ RLe(Rat(6, 10), rec.Confidence)
    IN  [totalSavings |-> IF rec.ResourceType = "CPU"
                          THEN RAdd(t.totalSavings, rec.PotentialSavings)
                          ELSE t.totalSavings,
         cpuSavings |-> IF rec.ResourceType = "CPU"
                        THEN RAdd(t.cpuSavings, rec.PotentialSavings) ELSE t.cpuSavings,
         memorySavings |-> IF rec.ResourceType = "CPU" THEN t.memorySavings
                           ELSE RAdd(t.memorySavings, rec.PotentialSavings),
         highConfidenceCount |-> t.highConfidenceCount + Bump(high),
         mediumConfidenceCount |-> t.mediumConfidenceCount + Bump(medium),
         lowConfidenceCount |-> t.lowConfidenceCount + Bump(~high /\ ~medium),
         highRiskCount |-> t.highRiskCount + Bump(rec.RiskLevel = "HIGH"),
         mediumRiskCount |-> t.mediumRiskCount + Bump(rec.RiskLevel = "MEDIUM"),
         lowRiskCount |-> t.lowRiskCount + Bump(rec.RiskLevel = "LOW")]

\* the body of for _, rec := range recommendations
AddRecommendation(t, rec) ==
    LET high == RLe(Rat(8, 10), rec.Confidence)
        medium == ~high /\ RLe(Rat(6, 10), rec.Confidence)
    IN  [totalSavings |-> RAdd(t.totalSavings, rec.PotentialSavings),
         cpuSavings |-> IF rec.ResourceType = "CPU"
                        THEN RAdd(t.cpuSavings, rec.PotentialSavings) ELSE t.cpuSavings,
         memorySavings |-> IF rec.ResourceType = "CPU" THEN t.memorySavings
                           ELSE RAdd(t.memorySavings, rec.PotentialSavings),
         highConfidenceCount |-> t.highConfidenceCount + Bump(high),
         mediumConfidenceCount |-> t.mediumConfidenceCount + Bump(medium),
         lowConfidenceCount |-> t.lowConfidenceCount + Bump(~high /\ ~medium),
         highRiskCount |-> t.highRiskCount + Bump(rec.RiskLevel = "HIGH"),
         mediumRiskCount |-> t.mediumRiskCount + Bump(rec.RiskLevel = "MEDIUM"),
         lowRiskCount |-> t.lowRiskCount + Bump(rec.RiskLevel = "LOW")]

RECURSIVE Totals(_)
Totals(recs) ==
    IF recs = <<>> THEN EmptyTotals
    ELSE AddRecommendation(Totals(SubSeq(recs, 1, Len(recs) - 1)), recs[Len(recs)])

\* the map GetOptimizationSummary returns
SummaryOf(recs) ==
    LET t == Totals(recs)
    IN  [total_recommendations |-> Len(recs),
         total_savings |-> t.totalSavings,
         annual_savings |-> RMul(t.totalSavings, Int2Rat(12)),
         cpu_savings |-> t.cpuSavings,
         memory_savings |-> t.memorySavings,
         confidence_breakdown |-> [high |-> t.highConfidenceCount,
                                   medium |-> t.mediumConfidenceCount,
                                   low |-> t.lowConfidenceCount],
         risk_breakdown |-> [low |-> t.lowRiskCount, medium |-> t.mediumRiskCount,
                             high |-> t.highRiskCount],
         optimization_potential |-> RMul(t.totalSavings, Rat(100, 1000))]

SumInit ==
    /\ CalcIdle
    /\ ExtIdle
    /\ \E n \in 1..MaxWorkloads :
          /\ dbMetrics \in [1..n -> SummaryGroups]
          /\ allocLookup \in [1..n -> AllocOutcomes]
    /\ dbReachable \in BOOLEAN
    /\ ctxCancelled = FALSE /\ cancelledAt = -1
    /\ pc = "idle" /\ rows = <<>> /\ rowIdx = 0
    /\ recommendations = <<>> /\ retErr = "nil" /\ logged = <<>>

\* AnalyzeNamespace has returned: return nil, err or the summary map
GetOptimizationSummary ==
    /\ pc = "done" /\ summary = <<>>
    /\ summary' = IF retErr # "nil"
                  THEN [err |-> retErr, result |-> <<>>]
                  ELSE [err |-> "nil", result |-> <<SummaryOf(recommendations)>>]
    /\ UNCHANGED <<calcVars, nsVars, simVars, cbVars, retryVars, wsVars, cacheVars>>

SumNext == Next \/ GetOptimizationSummary

SpecSummary == SumInit /\ [][SumNext]_vars

Summarized == summary # <<>> /\ summary.err = "nil"

\* C22: in every summary the confidence buckets and the risk buckets each
\* sum to total_recommendations, cpu_savings + memory_savings is
\* total_savings, and annual_savings is 12 times total_savings.
C22_SummaryTotals ==
    Summarized =>
        LET r == summary.result[1]
        IN  /\ r.total_recommendations = Len(recommendations)
            /\ r.confidence_breakdown.high + r.confidence_breakdown.medium
                   + r.confidence_breakdown.low = r.total_recommendations
            /\ r.risk_breakdown.low + r.risk_breakdown.medium
                   + r.risk_breakdown.high = r.total_recommendations
            /\ RAdd(r.cpu_savings, r.memory_savings) = r.total_savings
            /\ r.annual_savings = RMul(Int2Rat(12), r.total_savings)

C22_Witness ==
    /\ Summarized
    /\ LET r == summary.result[1]
       IN  /\ r.total_recommendations = 4
           /\ r.confidence_breakdown.high > 0 /\ r.confidence_breakdown.medium > 0
           /\ r.risk_breakdown.medium > 0
           /\ r.memory_savings.n # 0 /\ r.cpu_savings.n # 0

----------------------------------------------------------------------------
(* Further properties of one calculate call (SpecCalc).                     *)

ClaimedTier ==
    IF 10 * CalcCV.n < 3 * CalcCV.d THEN "LOW"
    ELSE IF 10 * CalcCV.n < 6 * CalcCV.d THEN "MEDIUM"
    ELSE "HIGH"

ClaimedCPULimit ==
    CASE ClaimedTier = "LOW" -> RMul(Int2Rat(calcIn.s.p99), Rat(120, 100))
      [] ClaimedTier = "MEDIUM" ->
             RMax(RMul(Int2Rat(calcIn.s.p99), Rat(150, 100)), Int2Rat(calcIn.s.max))
      [] ClaimedTier = "HIGH" -> RMul(Int2Rat(calcIn.s.max), Rat(130, 100))

WholeMiB(x) == x.d = 1 /\ x.n % MiB = 0

\* C23: the risk level of an emitted recommendation is LOW for cv < 0.30,
\* MEDIUM for 0.30 <= cv < 0.60 and HIGH for cv >= 0.60, for CPU and Memory
\* alike; the CPU limit is the tier's p99 * 1.20, max(p99 * 1.5, max) or
\* max * 1.30 unless the 1.5 x request floor is larger, and the Memory
\* limit is the rounded max * 1.20 unless that floor is larger, in any tier.
C23_RiskTiers ==
    Emitted =>
        LET floor == RMul(EmittedRec.RecommendedRequest, Rat(15, 10))
        IN  /\ EmittedRec.RiskLevel = ClaimedTier
            /\ calcIn.kind = "CPU" =>
                   EmittedRec.RecommendedLimit = RMax(ClaimedCPULimit, floor)
            /\ calcIn.kind = "Memory" =>
                   EmittedRec.RecommendedLimit =
                       RMax(CeilTo(RMul(Int2Rat(calcIn.s.max), Rat(120, 100)), MiB), floor)

C23_Witness ==
    /\ Emitted /\ calcIn.kind = "Memory" /\ CalcCV = Rat(3, 10)
    /\ EmittedRec.RiskLevel = "MEDIUM"
    /\ RLt(RMul(EmittedRec.RecommendedRequest, Rat(15, 10)), EmittedRec.RecommendedLimit)

\* C24: in every emitted Memory recommendation the recommended request and
\* the recommended limit are whole multiples of 1 MiB.
C24_WholeMiB ==
    (Emitted /\ calcIn.kind = "Memory") =>
        /\ WholeMiB(EmittedRec.RecommendedRequest)
        /\ WholeMiB(EmittedRec.RecommendedLimit)

\* C29: with a sample count from minDataPoints to 700 the confidence is at
\* most 0.7, so a calculate call always emits a recommendation, whatever
\* the waste, also when the current request is below the p95 usage.
C29_LowConfidenceAlwaysEmits ==
    (calcPc = "done" /\ calcIn.dataPoints >= minDataPoints /\ calcIn.dataPoints <= 700) =>
        /\ calcOut # NoRec
        /\ 10 * EmittedRec.Confidence.n <= 7 * EmittedRec.Confidence.d

C29_Witness ==
    /\ Emitted /\ calcIn.dataPoints = 700 /\ CalcCV.n = 0
    /\ calcIn.currentRequest > 0 /\ calcIn.currentRequest < calcIn.s.p95
    /\ EmittedRec.PotentialSavings.n < 0
    /\ EmittedRec.Confidence = Rat(7, 10)

----------------------------------------------------------------------------
(* Further properties of SimulateCosts (SpecSim).                           *)

Unreadable(pod) == allocLookup[pod].kind # "row"

SomeUnreadable ==
    \E i \in 1..Len(simReq.changes) : Unreadable(simReq.changes[i].pod)

\* the cost a change adds when it is counted from a current allocation of 0
FullRequestCost(change) ==
    RMul(RAdd(RMul(Int2Rat(change.cpuRequest), costPerMillicore),
              RMul(Int2Rat(change.memoryRequest), costPerByte)),
         Int2Rat(change.replicas))

RECURSIVE CostCountingUnreadableFromZero(_)
CostCountingUnreadableFromZero(changes) ==
    IF changes = <<>> THEN Int2Rat(0)
    ELSE RAdd(IF Unreadable(Head(changes).pod) THEN FullRequestCost(Head(changes))
              ELSE ClaimedDelta(Head(changes)),
              CostCountingUnreadableFromZero(Tail(changes)))

\* the part of C28 about the delta: every change is counted, a change whose
\* allocation cannot be read with its full proposed request
UnreadableCountedFromZero ==
    \A h \in Handlers :
        (Answered(h) /\ SomeUnreadable) =>
            sim[h].response.cost_difference =
                RMul(CostCountingUnreadableFromZero(simReq.changes),
                     Int2Rat(PeriodMultiplier(simReq.period)))

\* C28: when the allocation of a changed workload cannot be read, its delta
\* is computed against an allocation of zero and the simulation still
\* returns a result.
C28_UnreadableAllocationStillAnswers ==
    /\ UnreadableCountedFromZero
    /\ \A h \in Handlers :
           (Answered(h) /\ SomeUnreadable) => sim[h].body = "json"

----------------------------------------------------------------------------
(* The websocket Hub and its clients (hub.go, client.go).                   *)
(* Goroutines: Hub.Run, one caller of Hub.BroadcastToNamespace, and per     *)
(* client its ReadPump and its WritePump.  Run's broadcast branch and       *)
(* BroadcastToNamespace both hold h.mutex.RLock(), so they run side by side;*)
(* the register and unregister branches take h.mutex.Lock().  A send on a   *)
(* closed channel and a second close panic: wsHist.panic names the panic    *)
(* and the process stops.                                                   *)

NumClients == 2
SendCapacity == 1
MaxBroadcasts == 2
MaxMessages == 2

Clients == 1..NumClients

NoPanic == "none"

\* make(chan []byte, 256), scaled to SendCapacity
NewChan == [len |-> 0, closed |-> FALSE, closes |-> 0, lateSend |-> FALSE]

\* ch <- data where it does not block
ChanSend(ch) ==
    IF ch.closed THEN [ch EXCEPT !.lateSend = TRUE]
    ELSE [ch EXCEPT !.len = @ + 1]

\* close(ch)
ChanClose(ch) == [ch EXCEPT !.closed = TRUE, !.closes = @ + 1]

PanicOfSend(ch) == IF ch.closed THEN "send on closed channel" ELSE NoPanic

PanicOfClose(ch) == IF ch.closed THEN "close of closed channel" ELSE NoPanic

Looping(todo) == [at |-> "loop", todo |-> todo, closing |-> 0]

AtRest == [at |-> "rest", todo |-> {}, closing |-> 0]

wsFrame == <<calcVars, nsVars, simVars, cbVars, retryVars, sumVars, cacheVars>>

WsInit ==
    /\ CalcIdle /\ NsIdle /\ SimIdle /\ CBIdle /\ RetryIdle /\ SumIdle /\ CacheIdle
    /\ hubClients = {}
    /\ send = [c \in Clients |-> NewChan]
    /\ subscribed = [c \in Clients |-> FALSE]
    /\ wsPc = [run |-> AtRest, ns |-> AtRest, reader |-> [c \in Clients |-> "new"]]
    /\ wsHist = [panic |-> NoPanic, broadcasts |-> 0, messages |-> [c \in Clients |-> 0]]

Running == wsHist.panic = NoPanic

\* h.mutex.Lock() can be taken: no goroutine holds the read lock
CanLock == wsPc.run.at = "rest" /\ wsPc.ns.at = "rest"

\* Run: case client := <-h.register
Register(c) ==
    /\ Running /\ CanLock /\ wsPc.reader[c] = "new"
    /\ hubClients' = hubClients \cup {c}
    /\ wsPc' = [wsPc EXCEPT !.reader[c] = "reading"]
    /\ UNCHANGED <<wsFrame, send, subscribed, wsHist>>

\* ReadPump: ReadMessage returns a subscribe, unsubscribe or ping message;
\* handleMessage updates subscribedNamespaces under c.mutex
ReadMessage(c) ==
    /\ Running /\ wsPc.reader[c] = "reading"
    /\ wsHist.messages[c] < MaxMessages
    /\ \E type \in {"subscribe", "unsubscribe", "ping"} :
          subscribed' = [subscribed EXCEPT ![c] =
                            CASE type = "subscribe" -> TRUE
                              [] type = "unsubscribe" -> FALSE
                              [] OTHER -> @]
    /\ wsPc' = [wsPc EXCEPT !.reader[c] = "sending"]
    /\ wsHist' = [wsHist EXCEPT !.messages[c] = @ + 1]
    /\ UNCHANGED <<wsFrame, hubClients, send>>

\* subscribeToNamespace / unsubscribeFromNamespace / sendPong: c.send <- data
SendReply(c) ==
    /\ Running /\ wsPc.reader[c] = "sending"
    /\ send[c].closed \/ send[c].len < SendCapacity
    /\ send' = [send EXCEPT ![c] = ChanSend(@)]
    /\ wsHist' = [wsHist EXCEPT !.panic = PanicOfSend(send[c])]
    /\ wsPc' = [wsPc EXCEPT !.reader[c] = "reading"]
    /\ UNCHANGED <<wsFrame, hubClients, subscribed>>

\* ReadPump: ReadMessage fails, break; the deferred c.hub.unregister <- c waits
ReadError(c) ==
    /\ Running /\ wsPc.reader[c] = "reading"
    /\ wsPc' = [wsPc EXCEPT !.reader[c] = "unregistering"]
    /\ UNCHANGED <<wsFrame, hubClients, send, subscribed, wsHist>>

\* Run: case client := <-h.unregister
Unregister(c) ==
    /\ Running /\ CanLock /\ wsPc.reader[c] = "unregistering"
    /\ IF c \in hubClients
       THEN /\ hubClients' = hubClients \ {c}
            /\ send' = [send EXCEPT ![c] = ChanClose(@)]
            /\ wsHist' = [wsHist EXCEPT !.panic = PanicOfClose(send[c])]
       ELSE UNCHANGED <<hubClients, send, wsHist>>
    /\ wsPc' = [wsPc EXCEPT !.reader[c] = "exited"]
    /\ UNCHANGED <<wsFrame, subscribed>>

\* WritePump: case message, ok := <-c.send
WriteMessage(c) ==
    /\ Running /\ send[c].len > 0
    /\ send' = [send EXCEPT ![c].len = @ - 1]
    /\ UNCHANGED <<wsFrame, hubClients, wsPc, subscribed, wsHist>>

\* Run: case message := <-h.broadcast; h.mutex.RLock()
RunBroadcast ==
    /\ Running /\ wsPc.run.at = "rest" /\ wsHist.broadcasts < MaxBroadcasts
    /\ wsPc' = [wsPc EXCEPT !.run = Looping(hubClients)]
    /\ wsHist' = [wsHist EXCEPT !.broadcasts = @ + 1]
    /\ UNCHANGED <<wsFrame, hubClients, send, subscribed>>

\* BroadcastToNamespace: h.mutex.RLock()
NsBroadcast ==
    /\ Running /\ wsPc.ns.at = "rest" /\ wsHist.broadcasts < MaxBroadcasts
    /\ wsPc' = [wsPc EXCEPT !.ns = Looping(hubClients)]
    /\ wsHist' = [wsHist EXCEPT !.broadcasts = @ + 1]
    /\ UNCHANGED <<wsFrame, hubClients, send, subscribed>>

\* for client := range h.clients, the select on client.send: the message is
\* queued, or the channel is full and the default case is taken.  who is
\* "run" or "ns".  An entry another goroutine deleted during the loop is
\* either not produced or still produced by the unsynchronised map.
Visit(who, c) ==
    /\ Running /\ wsPc[who].at = "loop" /\ wsPc[who].closing = 0
    /\ c \in wsPc[who].todo
    /\ \/ /\ c \notin hubClients \/ (who = "ns" /\ ~subscribed[c])
          /\ wsPc' = [wsPc EXCEPT ![who].todo = @ \ {c}]
          /\ UNCHANGED <<send, wsHist>>
       \/ /\ who = "ns" => subscribed[c]
          /\ IF send[c].closed \/ send[c].len < SendCapacity
             THEN /\ send' = [send EXCEPT ![c] = ChanSend(@)]
                  /\ wsHist' = [wsHist EXCEPT !.panic = PanicOfSend(send[c])]
                  /\ wsPc' = [wsPc EXCEPT ![who].todo = @ \ {c}]
             ELSE /\ wsPc' = [wsPc EXCEPT ![who].todo = @ \ {c}, ![who].closing = c]
                  /\ UNCHANGED <<send, wsHist>>
    /\ UNCHANGED <<wsFrame, hubClients, subscribed>>

\* default: close(client.send); delete(h.clients, client)
CloseSlow(who) ==
    /\ Running /\ wsPc[who].at = "loop" /\ wsPc[who].closing # 0
    /\ LET c == wsPc[who].closing
       IN  /\ send' = [send EXCEPT ![c] = ChanClose(@)]
           /\ wsHist' = [wsHist EXCEPT !.panic = PanicOfClose(send[c])]
           /\ hubClients' = hubClients \ {c}
    /\ wsPc' = [wsPc EXCEPT ![who].closing = 0]
    /\ UNCHANGED <<wsFrame, subscribed>>

\* the loop ends: h.mutex.RUnlock()
EndBroadcast(who) ==
    /\ Running /\ wsPc[who].at = "loop" /\ wsPc[who].closing = 0
    /\ wsPc[who].todo = {}
    /\ wsPc' = [wsPc EXCEPT ![who] = AtRest]
    /\ UNCHANGED <<wsFrame, hubClients, send, subscribed, wsHist>>

WsNext ==
    \/ RunBroadcast
    \/ NsBroadcast
    \/ \E who \in {"run", "ns"} :
          \/ \E c \in Clients : Visit(who, c)
          \/ CloseSlow(who)
          \/ EndBroadcast(who)
    \/ \E c \in Clients :
          \/ Register(c)
          \/ ReadMessage(c)
          \/ SendReply(c)
          \/ ReadError(c)
          \/ Unregister(c)
          \/ WriteMessage(c)

SpecWs == WsInit /\ [][WsNext]_vars

\* C26: every client's send channel is closed at most once and nothing is
\* sent on it after it has been closed.
C26_SendChannelSafe ==
    \A c \in Clients : send[c].closes <= 1 /\ ~send[c].lateSend

----------------------------------------------------------------------------
(* The two-level cache (multilevel.go): l1Cache is Redis, l2Cache is the    *)
(* in-memory bigcache.  One key; goroutines calling Get, one calling Set,   *)
(* one calling Delete; entries expire from either level by their TTL.       *)
(* cachePc.deleted is the observer's flag "Delete has returned nil and no   *)
(* Set has run during or after that Delete".                                *)

NumGetters == 2
NumValues == 2

Getters == 1..NumGetters
Values == 1..NumValues

Absent == 0

\* what Get hands back with fmt.Errorf("key not found"): no data
NotFound == Absent

IdleGet == [pc |-> "idle", data |-> Absent, afterDelete |-> FALSE,
            ret |-> NotFound, claimed |-> FALSE]

IdleSet == [pc |-> "idle", val |-> Absent]

\* clean: no Set has run since this Delete began
IdleDelete == [pc |-> "idle", clean |-> FALSE]

\* return from Get with ret; the call is one the claim speaks of when it
\* started after the Delete returned and no Set has run since
GetReturn(call, ret, deleted) ==
    [call EXCEPT !.pc = "returned", !.ret = ret,
                 !.claimed = call.afterDelete /\ deleted]

cacheFrame == <<calcVars, nsVars, simVars, cbVars, retryVars, sumVars, wsVars>>

CacheInit ==
    /\ CalcIdle /\ NsIdle /\ SimIdle /\ CBIdle /\ RetryIdle /\ SumIdle /\ WsIdle
    /\ cache = [l1 |-> Absent, l2 |-> Absent]
    /\ cachePc = [get |-> [g \in Getters |-> IdleGet], set |-> IdleSet,
                  del |-> IdleDelete, deleted |-> FALSE]

\* Get: cm.l2Cache.Get(key); a hit returns at once
GetL2(g) ==
    /\ cachePc.get[g].pc \in {"idle", "returned"}
    /\ LET call == [IdleGet EXCEPT !.afterDelete = cachePc.deleted]
       IN  cachePc' = [cachePc EXCEPT !.get[g] =
                          IF cache.l2 # Absent
                          THEN GetReturn(call, cache.l2, cachePc.deleted)
                          ELSE [call EXCEPT !.pc = "l1"]]
    /\ UNCHANGED <<cacheFrame, cache>>

\* Get: cm.l1Cache.Get(ctx, key).Bytes(); a miss returns "key not found"
GetL1(g) ==
    /\ cachePc.get[g].pc = "l1"
    /\ cachePc' = [cachePc EXCEPT !.get[g] =
                      IF cache.l1 # Absent
                      THEN [@ EXCEPT !.pc = "fill", !.data = cache.l1]
                      ELSE GetReturn(@, NotFound, cachePc.deleted)]
    /\ UNCHANGED <<cacheFrame, cache>>

\* Get: cm.l2Cache.Set(key, data); return data, nil
GetFill(g) ==
    /\ cachePc.get[g].pc = "fill"
    /\ cache' = [cache EXCEPT !.l2 = cachePc.get[g].data]
    /\ cachePc' = [cachePc EXCEPT !.get[g] =
                      GetReturn(@, cachePc.get[g].data, cachePc.deleted)]
    /\ UNCHANGED cacheFrame

\* Set: cm.l1Cache.Set(ctx, key, data, ttl)
SetL1(v) ==
    /\ cachePc.set.pc = "idle"
    /\ cache' = [cache EXCEPT !.l1 = v]
    /\ cachePc' = [cachePc EXCEPT !.set = [pc |-> "l2", val |-> v],
                                  !.del.clean = FALSE, !.deleted = FALSE]
    /\ UNCHANGED cacheFrame

\* Set: cm.l2Cache.Set(key, data)
SetL2 ==
    /\ cachePc.set.pc = "l2"
    /\ cache' = [cache EXCEPT !.l2 = cachePc.set.val]
    /\ cachePc' = [cachePc EXCEPT !.set = IdleSet,
                                  !.del.clean = FALSE, !.deleted = FALSE]
    /\ UNCHANGED cacheFrame

\* Delete: err1 := cm.l1Cache.Del(ctx, key).Err()
DeleteL1 ==
    /\ cachePc.del.pc = "idle"
    /\ cache' = [cache EXCEPT !.l1 = Absent]
    /\ cachePc' = [cachePc EXCEPT
          !.del = [pc |-> "l2", clean |-> cachePc.set.pc = "idle"]]
    /\ UNCHANGED cacheFrame

\* Delete: err2 := cm.l2Cache.Delete(key), an error when the entry is not
\* there; Delete returns nil when neither call failed
DeleteL2 ==
    /\ cachePc.del.pc = "l2"
    /\ cache' = [cache EXCEPT !.l2 = Absent]
    /\ cachePc' = [cachePc EXCEPT
          !.del = IdleDelete,
          !.deleted = IF cache.l2 # Absent THEN cachePc.del.clean ELSE @]
    /\ UNCHANGED cacheFrame

\* an entry outlives its TTL: L1TTL in Redis, L2TTL (LifeWindow) in bigcache
Expire(level) ==
    /\ cache[level] # Absent
    /\ cache' = [cache EXCEPT ![level] = Absent]
    /\ UNCHANGED <<cacheFrame, cachePc>>

CacheNext ==
    \/ \E g \in Getters : GetL2(g) \/ GetL1(g) \/ GetFill(g)
    \/ \E v \in Values : SetL1(v)
    \/ SetL2
    \/ DeleteL1
    \/ DeleteL2
    \/ \E level \in {"l1", "l2"} : Expire(level)

SpecCache == CacheInit /\ [][CacheNext]_vars

\* C27: a Get that starts after Delete has returned nil, with no Set of the
\* key since, returns "key not found".
C27_DeletedStaysDeleted ==
    \A g \in Getters :
        (cachePc.get[g].pc = "returned" /\ cachePc.get[g].claimed)
            => cachePc.get[g].ret = NotFound

====
